---- MODULE Spec2Model ----
(***************************************************************************)
(* A model of the strtools text-scanning algorithms:                       *)
(*   find::longest_unique_substr      (src/src/find/substr.rs)             *)
(*   split::non_escaped               (split/non_escaped/unsanitized.rs)   *)
(*   split::non_escaped_sanitize      (split/non_escaped/sanitized.rs)     *)
(* A str is a sequence of chars, a char is its code point, and every       *)
(* offset is a byte offset into the UTF-8 encoding, as in the source.      *)
(***************************************************************************)
EXTENDS Integers, Sequences, FiniteSets, TLC

VARIABLES
    input,      \* the &str argument of the running function
    esc,        \* the escape char of a splitter or of escape::charset
    delims,     \* the delimiters of a splitter, in the order given
    max,        \* Option<NonZeroUsize> of longest_unique_substr
    pc,         \* which function runs, and where it stands
    iter,       \* chars already taken from input.char_indices()
    seen,       \* IndexMap<char, usize>, in insertion order
    current,    \* Range<usize>
    longest,    \* Range<usize>
    ret,        \* the value returned by the function, once it has returned
    rest,       \* NonEscaped::rest; the local rest of escape::charset
    done,       \* NonEscapedSanitize::done
    curr,       \* NonEscapedSanitize::curr
    out,        \* what the calls of next() returned so far, in order
    splits,     \* byte offsets of the delimiters at which next() split
    charset,    \* the &Sorted<char> argument of escape::charset
    result,     \* the local result of escape::charset, a Cow<str>
    index,      \* the index argument of char_boundary and char_boundary_mut
    indices,    \* the &Sorted<usize, N> argument of split::n_times
    radix,      \* the radix argument of from_str_radix_front and _back
    ty          \* the integer type T the parse functions are called for

vars == <<input, esc, delims, max, pc, iter, seen, current, longest, ret,
          rest, done, curr, out, splits, charset, result, index, indices,
          radix, ty>>

----------------------------------------------------------------------------
(* Bounds of the model *)

MaxSubstrLen == 6
MaxCap == 4
MaxSplitLen == 6
MaxExhaustedCalls == 2
MaxEscapeLen == 5
MaxBoundaryLen == 3
MaxNTimesLen == 3
MaxIndices == 2
MaxRadixLen == 4
MaxPaddedLen == 8
MaxTokens == 2
MaxYieldCalls == 2

(* ':' , '\' , 'a', 'b', and the two-byte 'ö' *)
Colon == 58
Backslash == 92
LetterA == 97
LetterB == 98
OUmlaut == 246
\* a char of three bytes
EuroSign == 8364
Bang == 33
Plus == 43
Minus == 45
Zero == 48
One == 49
Two == 50
Nine == 57

SubstrChars == {LetterA, LetterB, OUmlaut, EuroSign}

RECURSIVE SeqsUpTo(_, _)
SeqsUpTo(S, n) ==
    IF n = 0 THEN {<<>>}
    ELSE LET shorter == SeqsUpTo(S, n - 1)
         IN  shorter \cup {Append(s, c) : s \in {t \in shorter : Len(t) = n - 1}, c \in S}

----------------------------------------------------------------------------
(* Option, str and Range *)

None == [some |-> FALSE]
Some(v) == [some |-> TRUE, val |-> v]

len_utf8(c) ==
    IF c < 128 THEN 1 ELSE IF c < 2048 THEN 2 ELSE IF c < 65536 THEN 3 ELSE 4

RECURSIVE StrLen(_)
StrLen(s) == IF s = <<>> THEN 0 ELSE len_utf8(Head(s)) + StrLen(Tail(s))

\* the byte offset at which the k-th char (from 1) of s starts
OffsetOf(s, k) == StrLen(SubSeq(s, 1, k - 1))

\* s.char_indices(): the k-th item is (byte offset, char)
char_indices(s) == [k \in 1..Len(s) |-> <<OffsetOf(s, k), s[k]>>]

IsCharBoundary(s, i) == \E k \in 1..(Len(s) + 1) : OffsetOf(s, k) = i

\* &s[a..b] for byte offsets a <= b on char boundaries
Slice(s, a, b) ==
    SubSeq(s, Cardinality({k \in 1..Len(s) : OffsetOf(s, k) < a}) + 1,
              Cardinality({k \in 1..Len(s) : OffsetOf(s, k) < b}))

Range(start, end) == [start |-> start, end |-> end]

\* ExactSizeIterator::len of a Range<usize>
RangeLen(r) == IF r.end > r.start THEN r.end - r.start ELSE 0

----------------------------------------------------------------------------
(* find::longest_unique_substr *)

\* IndexMap::get_index_of: the position (from 1) of the entry of key, or 0
IndexOfKey(map, key) ==
    IF \E i \in 1..Len(map) : map[i].key = key
    THEN CHOOSE i \in 1..Len(map) : map[i].key = key
    ELSE 0

\* IndexMap::drain(..n): removes the first n entries, keeps the order of the others
DrainFront(map, n) == SubSeq(map, n + 1, Len(map))

\* OccupiedArm that forgets to record current as longest before moving its start
OccupiedArm_NoLongest(st, i, idx, char) ==
    LET prev == st.seen[i].value
        cur == Range(prev + len_utf8(char), st.current.end)
        upd == [st.seen EXCEPT ![i].value = idx]
    IN  [seen |-> DrainFront(upd, i - 1), current |-> cur, longest |-> st.longest]

\* OccupiedArm that compares and records the range after moving its start
OccupiedArm_LongestAfterMove(st, i, idx, char) ==
    LET prev == st.seen[i].value
        cur == Range(prev + len_utf8(char), st.current.end)
        lg == IF RangeLen(cur) > RangeLen(st.longest) THEN cur ELSE st.longest
        upd == [st.seen EXCEPT ![i].value = idx]
    IN  [seen |-> DrainFront(upd, i - 1), current |-> cur, longest |-> lg]

\* Entry::Occupied arm; i is occupied.index() counted from 1
OccupiedArm(st, i, idx, char) ==
    LET prev == st.seen[i].value
        lg == IF RangeLen(st.current) > RangeLen(st.longest) THEN st.current ELSE st.longest
        cur == Range(prev + len_utf8(char), st.current.end)
        upd == [st.seen EXCEPT ![i].value = idx]
    IN  [seen |-> DrainFront(upd, i - 1), current |-> cur, longest |-> lg]

\* Entry::Vacant arm
VacantArm(st, idx, char) ==
    [st EXCEPT !.seen = Append(st.seen, [key |-> char, value |-> idx])]

\* the loop body ending the window one byte after idx, whatever the char
LoopBody_EndPlusOne(st, idx, char) ==
    LET i == IndexOfKey(st.seen, char)
        m == IF i > 0 THEN OccupiedArm(st, i, idx, char) ELSE VacantArm(st, idx, char)
    IN  [m EXCEPT !.current = Range(m.current.start, idx + 1)]

\* the match on seen.entry(char), then current.end = idx + char.len_utf8()
LoopBody(st, idx, char) ==
    LET i == IndexOfKey(st.seen, char)
        m == IF i > 0 THEN OccupiedArm(st, i, idx, char) ELSE VacantArm(st, idx, char)
    IN  [m EXCEPT !.current = Range(m.current.start, idx + len_utf8(char))]

\* "yield current if the next would exceed the max"
ExceedsMax(mx, cur, idx, char) ==
    mx.some /\ RangeLen(Range(cur.start, idx + len_utf8(char))) > mx.val

\* the code after the loop returning current when it is as long as longest
AfterLoop_PrefersCurrent(mx, cur, lg) ==
    IF mx.some /\ RangeLen(lg) = mx.val THEN lg
    ELSE IF RangeLen(cur) >= RangeLen(lg) THEN cur
    ELSE lg

\* the code after the loop
AfterLoop(mx, cur, lg) ==
    IF mx.some /\ RangeLen(lg) = mx.val THEN lg
    ELSE IF RangeLen(cur) > RangeLen(lg) THEN cur
    ELSE lg

\* escape::charset is not running
EscapeIdle == charset = <<>> /\ result = None

\* no argument of the split::char_boundary, split::n_times or parse functions
ArgsIdle == index = 0 /\ indices = <<>> /\ radix = 0 /\ ty = None

SplitIdle ==
    /\ esc = 0 /\ delims = <<>> /\ rest = None /\ done = 0 /\ curr = None
    /\ out = <<>> /\ splits = <<>>

InitSubstr ==
    /\ input \in SeqsUpTo(SubstrChars, MaxSubstrLen)
    /\ max \in {None} \cup {Some(n) : n \in 1..MaxCap}
    /\ pc = "substr_loop"
    /\ iter = 0
    /\ seen = <<>>
    /\ current = Range(0, 0)
    /\ longest = Range(0, 0)
    /\ ret = None
    /\ SplitIdle
    /\ EscapeIdle
    /\ ArgsIdle

\* one iteration of the for loop, the early return included
SubstrIter ==
    /\ pc = "substr_loop"
    /\ iter < Len(input)
    /\ LET idx == char_indices(input)[iter + 1][1]
           char == char_indices(input)[iter + 1][2]
       IN  IF ExceedsMax(max, current, idx, char)
           THEN /\ ret' = Some(current)
                /\ pc' = "substr_ret"
                /\ UNCHANGED <<iter, seen, current, longest>>
           ELSE LET st == LoopBody([seen |-> seen, current |-> current, longest |-> longest],
                                   idx, char)
                IN  /\ seen' = st.seen
                    /\ current' = st.current
                    /\ longest' = st.longest
                    /\ iter' = iter + 1
                    /\ UNCHANGED <<ret, pc>>
    /\ UNCHANGED <<input, index, indices, radix, ty, charset, result, esc, delims, max, rest, done, curr, out, splits>>

\* the iterator is exhausted: the function returns longest or current
SubstrReturn ==
    /\ pc = "substr_loop"
    /\ iter = Len(input)
    /\ ret' = Some(AfterLoop(max, current, longest))
    /\ pc' = "substr_ret"
    /\ UNCHANGED <<input, index, indices, radix, ty, charset, result, esc, delims, max, iter, seen, current, longest,
                   rest, done, curr, out, splits>>

NextSubstr == SubstrIter \/ SubstrReturn

SpecSubstr == InitSubstr /\ [][NextSubstr]_vars

----------------------------------------------------------------------------
(* split::non_escaped and split::non_escaped_sanitize: construction *)

SplitChars == {Colon, Backslash, OUmlaut}
EscChoices == {Backslash, Colon}
\* &[char] arguments; the sorted ones are also the possible Sorted<char, N>
DelimChoices ==
    {<<>>, <<Colon>>, <<Backslash>>, <<Colon, Colon>>, <<Colon, Backslash>>,
     <<Colon, OUmlaut>>, <<OUmlaut, Colon>>}

\* slice::is_sorted, the invariant of util::Sorted
IsSorted(ds) == \A i \in 1..(Len(ds) - 1) : ds[i] <= ds[i + 1]

\* slice::contains
Contains(ds, c) == \E i \in 1..Len(ds) : ds[i] = c

\* the loop of slice::binary_search: the index (from 0) left in base
RECURSIVE BinarySearchBase(_, _, _, _)
BinarySearchBase(ds, c, base, size) ==
    IF size <= 1 THEN base
    ELSE LET half == size \div 2
             mid == base + half
         IN  BinarySearchBase(ds, c, IF ds[mid + 1] > c THEN base ELSE mid, size - half)

\* binary_search(&c).is_ok() misreading the slice as its first element only
BinarySearchIsOk_FirstOnly(ds, c) == Len(ds) > 0 /\ ds[1] = c

\* delims.binary_search(&c).is_ok()
BinarySearchIsOk(ds, c) ==
    /\ Len(ds) > 0
    /\ ds[BinarySearchBase(ds, c, 0, Len(ds)) + 1] = c

Ok == [ok |-> TRUE]
\* Err(NonEscapedError::EscapeIsDelimiter(c)), the only variant of the enum
Err(c) == [ok |-> FALSE, EscapeIsDelimiter |-> c]

Borrowed(s) == [borrowed |-> TRUE, s |-> s]
Owned(s) == [borrowed |-> FALSE, s |-> s]

SubstrIdle ==
    /\ max = None /\ seen = <<>> /\ current = Range(0, 0) /\ longest = Range(0, 0)

InitSplit ==
    /\ input \in SeqsUpTo(SplitChars, MaxSplitLen)
    /\ esc \in EscChoices
    /\ delims \in DelimChoices
    /\ pc = "split_new"
    /\ iter = 0
    /\ ret = None
    /\ rest = None
    /\ done = 0
    /\ curr = None
    /\ out = <<>>
    /\ splits = <<>>
    /\ SubstrIdle
    /\ EscapeIdle
    /\ ArgsIdle

\* split::non_escaped(input, esc, delims)
non_escaped ==
    /\ pc = "split_new"
    /\ IF ~Contains(delims, esc)
       THEN /\ rest' = Some(input)
            /\ ret' = Some(Ok)
            /\ pc' = "NonEscaped"
       ELSE /\ ret' = Some(Err(esc))
            /\ pc' = "split_err"
            /\ UNCHANGED rest
    /\ UNCHANGED <<input, index, indices, radix, ty, charset, result, esc, delims, max, iter, seen, current, longest,
                   done, curr, out, splits>>

\* the accumulator starting as an allocated, empty String
InitialCurr_Owned == Some(Owned(<<>>))

\* curr: Some(Cow::Borrowed("")) in the constructor
InitialCurr == Some(Borrowed(<<>>))

\* split::non_escaped_sanitize(input, esc, delims), delims a Sorted<char, N>
non_escaped_sanitize ==
    /\ pc = "split_new"
    /\ IsSorted(delims)
    /\ IF BinarySearchIsOk(delims, esc)
       THEN /\ ret' = Some(Err(esc))
            /\ pc' = "split_err"
            /\ UNCHANGED <<done, iter, curr>>
       ELSE /\ done' = 0
            /\ iter' = 0
            /\ curr' = InitialCurr
            /\ ret' = Some(Ok)
            /\ pc' = "NonEscapedSanitize"
    /\ UNCHANGED <<input, index, indices, radix, ty, charset, result, esc, delims, max, seen, current, longest,
                   rest, out, splits>>

----------------------------------------------------------------------------
(* NonEscaped::next *)

\* char_boundary_unchecked forgetting to step over the char at index
char_boundary_unchecked_KeepsChar(s, i) ==
    LET char_at == Slice(s, i, StrLen(s))[1]
    IN  <<Slice(s, 0, i), char_at, Slice(s, i, StrLen(s))>>

\* split::char_boundary_unchecked(s, i) = (before, char_at, after), i the index
char_boundary_unchecked(s, i) ==
    LET char_at == Slice(s, i, StrLen(s))[1]
    IN  <<Slice(s, 0, i), char_at, Slice(s, i + len_utf8(char_at), StrLen(s))>>

\* the loop without "is_escaped = false" at the end of its body
RECURSIVE NonEscapedLoop_NoReset(_, _, _, _, _)
NonEscapedLoop_NoReset(r, e, ds, k, is_escaped) ==
    IF k > Len(r) THEN -1
    ELSE LET idx == char_indices(r)[k][1]
             ch == char_indices(r)[k][2]
             toggled == IF ch = e THEN ~is_escaped ELSE is_escaped
         IN  IF ch = e /\ toggled THEN NonEscapedLoop_NoReset(r, e, ds, k + 1, TRUE)
             ELSE IF ch = e /\ k = Len(r) THEN -1
             ELSE IF ~toggled /\ Contains(ds, ch) THEN idx
             ELSE NonEscapedLoop_NoReset(r, e, ds, k + 1, toggled)

\* the while loop of NonEscaped::next from the k-th char of r on: the byte
\* offset in r of the delimiter it splits at, or -1 when it leaves the loop
RECURSIVE NonEscapedLoop(_, _, _, _, _)
NonEscapedLoop(r, e, ds, k, is_escaped) ==
    IF k > Len(r) THEN -1
    ELSE LET idx == char_indices(r)[k][1]
             ch == char_indices(r)[k][2]
             toggled == IF ch = e THEN ~is_escaped ELSE is_escaped
         IN  IF ch = e /\ toggled THEN NonEscapedLoop(r, e, ds, k + 1, TRUE)
             ELSE IF ch = e /\ k = Len(r) THEN -1
             ELSE IF ~toggled /\ Contains(ds, ch) THEN idx
             ELSE NonEscapedLoop(r, e, ds, k + 1, FALSE)

\* next() that splits after the delimiter and so leaves it in the yielded slice
NonEscapedNextOf_KeepsDelim(r, e, ds) ==
    IF ~r.some THEN [item |-> None, rest |-> None, at |-> -1]
    ELSE LET at == NonEscapedLoop(r.val, e, ds, 1, FALSE)
         IN  IF at >= 0
             THEN LET t == char_boundary_unchecked(r.val, at)
                  IN  [item |-> Some(Append(t[1], t[2])), rest |-> Some(t[3]), at |-> at]
             ELSE [item |-> r, rest |-> None, at |-> -1]

\* next() that clones the rest where it should take it
NonEscapedNextOf_KeepsRest(r, e, ds) ==
    IF ~r.some THEN [item |-> None, rest |-> None, at |-> -1]
    ELSE LET at == NonEscapedLoop(r.val, e, ds, 1, FALSE)
         IN  IF at >= 0
             THEN LET t == char_boundary_unchecked(r.val, at)
                  IN  [item |-> Some(t[1]), rest |-> Some(t[3]), at |-> at]
             ELSE [item |-> r, rest |-> r, at |-> -1]

\* next() that ends the iteration instead of yielding an empty rest
NonEscapedNextOf_SkipsEmptyRest(r, e, ds) ==
    IF ~r.some THEN [item |-> None, rest |-> None, at |-> -1]
    ELSE LET at == NonEscapedLoop(r.val, e, ds, 1, FALSE)
         IN  IF at >= 0
             THEN LET t == char_boundary_unchecked(r.val, at)
                  IN  [item |-> Some(t[1]), rest |-> Some(t[3]), at |-> at]
             ELSE [item |-> IF r.val = <<>> THEN None ELSE r, rest |-> None, at |-> -1]

\* NonEscaped::next on rest = r: the item returned, the new rest, and the
\* offset in r of the delimiter split at (-1: none)
NonEscapedNextOf(r, e, ds) ==
    IF ~r.some THEN [item |-> None, rest |-> None, at |-> -1]
    ELSE LET at == NonEscapedLoop(r.val, e, ds, 1, FALSE)
         IN  IF at >= 0
             THEN LET t == char_boundary_unchecked(r.val, at)
                  IN  [item |-> Some(t[1]), rest |-> Some(t[3]), at |-> at]
             ELSE [item |-> r, rest |-> None, at |-> -1]

\* every slice an iterator with this rest yields until it returns None
RECURSIVE NonEscapedCollect(_, _, _)
NonEscapedCollect(r, e, ds) ==
    LET n == NonEscapedNextOf(r, e, ds)
    IN  IF ~n.item.some THEN <<>>
        ELSE <<n.item.val>> \o NonEscapedCollect(n.rest, e, ds)

NoneCount(o) == Cardinality({i \in 1..Len(o) : ~o[i].some})

NonEscapedNext ==
    /\ pc = "NonEscaped"
    /\ NoneCount(out) < MaxExhaustedCalls
    /\ LET n == NonEscapedNextOf(rest, esc, delims)
       IN  /\ rest' = n.rest
           /\ out' = Append(out, n.item)
           /\ splits' = IF n.at >= 0
                        THEN Append(splits, StrLen(input) - StrLen(rest.val) + n.at)
                        ELSE splits
    /\ UNCHANGED <<input, index, indices, radix, ty, charset, result, esc, delims, max, pc, iter, seen, current, longest,
                   ret, done, curr>>

----------------------------------------------------------------------------
(* NonEscapedSanitize::next *)

\* an escape branch that always keeps the escape char
PushEscaped_KeepsEsc(m, e, ds, escaped) == Append(Append(m, e), escaped)

\* the escape branch: what is pushed onto curr.to_mut() for esc followed by escaped
PushEscaped(m, e, ds, escaped) ==
    LET kept == IF escaped /= e /\ ~BinarySearchIsOk(ds, escaped) THEN Append(m, e) ELSE m
    IN  Append(kept, escaped)

\* self.curr.take() where the code has self.curr.replace(Cow::Borrowed(""))
FreshCurr_Takes(old) == None

\* the accumulator left behind by a split that forgets it was owned
FreshCurr_KeepsOwned(old) ==
    IF old.some /\ ~old.val.borrowed THEN Some(Owned(<<>>)) ELSE Some(Borrowed(<<>>))

\* self.curr.replace(Cow::Borrowed("")): the new value of curr
FreshCurr(old) == Some(Borrowed(<<>>))

\* curr takes remaining and always ends up owned
TakeRemaining_AlwaysOwned(c, remaining) == Owned(c.s \o remaining)

\* curr takes remaining: a borrowed curr is replaced by it, an owned one extended
TakeRemaining(c, remaining) ==
    IF c.borrowed THEN Borrowed(remaining) ELSE Owned(c.s \o remaining)

\* the inner while loop: the last of the chars after the k-th that are neither
\* esc nor a delimiter, all of which it takes from iter
RECURSIVE RunEnd(_, _, _, _)
RunEnd(inp, e, ds, k) ==
    IF k < Len(inp) /\ inp[k + 1] /= e /\ ~BinarySearchIsOk(ds, inp[k + 1])
    THEN RunEnd(inp, e, ds, k + 1)
    ELSE k

\* the while loop of NonEscapedSanitize::next from state st = [iter, done, curr]:
\* it returns at a delimiter ("split"), runs out of chars ("exhausted") or panics
RECURSIVE SanitizeLoop(_, _, _, _)
SanitizeLoop(inp, e, ds, st) ==
    IF st.iter >= Len(inp) THEN [kind |-> "exhausted", st |-> st]
    ELSE LET idx == char_indices(inp)[st.iter + 1][1]
             ch == char_indices(inp)[st.iter + 1][2]
             k == st.iter + 1
         IN  IF ch = e /\ k < Len(inp)
             THEN IF ~st.curr.some THEN [kind |-> "panic", st |-> st]
                  ELSE LET next_idx == char_indices(inp)[k + 1][1]
                           escaped == char_indices(inp)[k + 1][2]
                           mutate == PushEscaped(st.curr.val.s, e, ds, escaped)
                       IN  SanitizeLoop(inp, e, ds,
                               [iter |-> k + 1,
                                done |-> next_idx + len_utf8(escaped),
                                curr |-> Some(Owned(mutate))])
             ELSE IF BinarySearchIsOk(ds, ch)
             THEN [kind |-> "split", at |-> idx, item |-> st.curr,
                   st |-> [iter |-> k, done |-> idx + len_utf8(ch),
                           curr |-> FreshCurr(st.curr)]]
             ELSE LET j == RunEnd(inp, e, ds, k)
                      jump == OffsetOf(inp, j) + len_utf8(inp[j])
                  IN  IF st.done > jump \/ ~st.curr.some
                      THEN [kind |-> "panic", st |-> st]
                      ELSE SanitizeLoop(inp, e, ds,
                               [iter |-> j,
                                done |-> jump,
                                curr |-> Some(TakeRemaining(st.curr.val,
                                                            Slice(inp, st.done, jump)))])

\* the code after the while loop, up to self.curr.take()
SanitizeTail(inp, st) ==
    IF st.done < StrLen(inp)
    THEN IF ~st.curr.some THEN [kind |-> "panic", st |-> st]
         ELSE [kind |-> "exhausted",
               st |-> [iter |-> st.iter, done |-> StrLen(inp),
                       curr |-> Some(TakeRemaining(st.curr.val,
                                                   Slice(inp, st.done, StrLen(inp))))]]
    ELSE [kind |-> "exhausted", st |-> st]

\* everything next returns, from state st on, up to and including the first
\* call that finds the input exhausted; a panic ends the sequence with a marker
RECURSIVE SanitizeCollectFrom(_, _, _, _)
SanitizeCollectFrom(inp, e, ds, st) ==
    LET l == SanitizeLoop(inp, e, ds, st)
        t == IF l.kind = "exhausted" THEN SanitizeTail(inp, l.st) ELSE l
    IN  IF t.kind = "panic" THEN <<[panic |-> TRUE]>>
        ELSE IF t.kind = "split"
        THEN <<t.item>> \o SanitizeCollectFrom(inp, e, ds, t.st)
        ELSE <<t.st.curr>>

\* non_escaped_sanitize(inp, e, ds) followed by calls of next until exhaustion
SanitizeCollect(inp, e, ds) ==
    IF BinarySearchIsOk(ds, e) THEN <<Err(e)>>
    ELSE SanitizeCollectFrom(inp, e, ds, [iter |-> 0, done |-> 0, curr |-> InitialCurr])

SanitizeNext ==
    /\ pc = "NonEscapedSanitize"
    /\ NoneCount(out) < MaxExhaustedCalls
    /\ LET l == SanitizeLoop(input, esc, delims, [iter |-> iter, done |-> done, curr |-> curr])
           t == IF l.kind = "exhausted" THEN SanitizeTail(input, l.st) ELSE l
       IN  /\ iter' = t.st.iter
           /\ done' = t.st.done
           /\ IF t.kind = "panic"
              THEN /\ pc' = "panic"
                   /\ UNCHANGED <<curr, out, splits>>
              ELSE IF t.kind = "split"
              THEN /\ curr' = t.st.curr
                   /\ out' = Append(out, t.item)
                   /\ splits' = Append(splits, t.at)
                   /\ UNCHANGED pc
              ELSE /\ curr' = None
                   /\ out' = Append(out, t.st.curr)
                   /\ UNCHANGED <<pc, splits>>
    /\ UNCHANGED <<input, index, indices, radix, ty, charset, result, esc, delims, max, seen, current, longest, ret, rest>>

NextSplit == non_escaped \/ non_escaped_sanitize \/ NonEscapedNext \/ SanitizeNext

SpecSplit == InitSplit /\ [][NextSplit]_vars

----------------------------------------------------------------------------
(* escape::charset *)

EscapeChars == {Colon, Backslash, OUmlaut}
\* the possible &Sorted<char>
CharsetChoices ==
    {<<>>, <<Colon>>, <<Backslash>>, <<Colon, Backslash>>, <<Colon, OUmlaut>>,
     <<Colon, Backslash, OUmlaut>>}

\* the closure given to find that looks at the charset only
NeedsEscape_CharsetOnly(ch, e, cs) == BinarySearchIsOk(cs, ch)

\* the closure given to find: ch == escape || charset.binary_search(&ch).is_ok()
NeedsEscape(ch, e, cs) == ch = e \/ BinarySearchIsOk(cs, ch)

\* rest.find(..): the byte offset of the first char, from the k-th on, that the
\* closure accepts
RECURSIVE Find(_, _, _, _)
Find(r, e, cs, k) ==
    IF k > Len(r) THEN None
    ELSE IF NeedsEscape(char_indices(r)[k][2], e, cs) THEN Some(char_indices(r)[k][1])
    ELSE Find(r, e, cs, k + 1)

\* the three pushes with the char pushed before the escape
PushEscapedChar_CharFirst(m, head, e, ch) == (m \o head) \o <<ch, e>>

\* mutate.push_str(head); mutate.push(escape); mutate.push(ch)
PushEscapedChar(m, head, e, ch) == (m \o head) \o <<e, ch>>

\* the final match that copies rest even when nothing was escaped
CharsetResult_AlwaysOwned(res, r) == Owned(res.s \o r)

\* the final match on result
CharsetResult(res, r) == IF res.borrowed THEN Borrowed(r) ELSE Owned(res.s \o r)

InitEscape ==
    /\ input \in SeqsUpTo(EscapeChars, MaxEscapeLen)
    /\ esc \in EscChoices
    /\ charset \in CharsetChoices
    /\ IsSorted(charset)
    /\ pc = "charset_loop"
    /\ rest = input
    /\ result = Borrowed(<<>>)
    /\ ret = None
    /\ iter = 0
    /\ done = 0 /\ curr = None /\ out = <<>> /\ splits = <<>> /\ delims = <<>>
    /\ SubstrIdle
    /\ ArgsIdle

\* one iteration of the while let loop
CharsetIter ==
    /\ pc = "charset_loop"
    /\ Find(rest, esc, charset, 1).some
    /\ LET idx == Find(rest, esc, charset, 1).val
           t == char_boundary_unchecked(rest, idx)
       IN  /\ result' = Owned(PushEscapedChar(result.s, t[1], esc, t[2]))
           /\ rest' = t[3]
    /\ UNCHANGED <<input, index, indices, radix, ty, charset, esc, delims, max, pc, iter, seen, current,
                   longest, ret, done, curr, out, splits>>

\* find returned None: the loop ends and the function returns
CharsetReturn ==
    /\ pc = "charset_loop"
    /\ ~Find(rest, esc, charset, 1).some
    /\ ret' = Some(CharsetResult(result, rest))
    /\ pc' = "charset_ret"
    /\ UNCHANGED <<input, index, indices, radix, ty, charset, result, esc, delims, max, iter, seen, current,
                   longest, rest, done, curr, out, splits>>

NextEscape == CharsetIter \/ CharsetReturn

SpecEscape == InitEscape /\ [][NextEscape]_vars

----------------------------------------------------------------------------
(* split::char_boundary and split::char_boundary_mut *)

BoundaryChars == {LetterA, OUmlaut, EuroSign}

\* the variants of CharBoundaryError
InputEmpty == [err |-> "InputEmpty"]
IndexOutOfRange(i, len) == [err |-> "IndexOutOfRange", index |-> i, len |-> len]
NotUTF8Boundary(i) == [err |-> "NotUTF8Boundary", index |-> i]

\* char_boundary testing the range before the emptiness of the input
char_boundary_RangeFirst(s, i) ==
    IF i >= StrLen(s) THEN [ok |-> FALSE, err |-> IndexOutOfRange(i, StrLen(s))]
    ELSE IF s = <<>> THEN [ok |-> FALSE, err |-> InputEmpty]
    ELSE IF ~IsCharBoundary(s, i) THEN [ok |-> FALSE, err |-> NotUTF8Boundary(i)]
    ELSE [ok |-> TRUE, val |-> char_boundary_unchecked(s, i)]

\* split::char_boundary(input, index)
char_boundary(s, i) ==
    IF s = <<>> THEN [ok |-> FALSE, err |-> InputEmpty]
    ELSE IF i >= StrLen(s) THEN [ok |-> FALSE, err |-> IndexOutOfRange(i, StrLen(s))]
    ELSE IF ~IsCharBoundary(s, i) THEN [ok |-> FALSE, err |-> NotUTF8Boundary(i)]
    ELSE [ok |-> TRUE, val |-> char_boundary_unchecked(s, i)]

\* split::char_boundary_mut_unchecked: before and after are made from the
\* pointer and a length, after from ptr.add(offset_after), len - offset_after
char_boundary_mut_unchecked(s, i) ==
    LET len == StrLen(s)
        char_at == Slice(s, i, len)[1]
        offset_after == i + len_utf8(char_at)
    IN  <<Slice(s, 0, i), char_at,
          Slice(s, offset_after, offset_after + (len - offset_after))>>

\* split::char_boundary_mut(input, index)
char_boundary_mut(s, i) ==
    IF s = <<>> THEN [ok |-> FALSE, err |-> InputEmpty]
    ELSE IF i >= StrLen(s) THEN [ok |-> FALSE, err |-> IndexOutOfRange(i, StrLen(s))]
    ELSE IF ~IsCharBoundary(s, i) THEN [ok |-> FALSE, err |-> NotUTF8Boundary(i)]
    ELSE [ok |-> TRUE, val |-> char_boundary_mut_unchecked(s, i)]

\* the call named f has been made
Called(f) == \E k \in 1..Len(out) : out[k].call = f

InitBoundary ==
    /\ input \in SeqsUpTo(BoundaryChars, MaxBoundaryLen)
    /\ index \in 0..(3 * MaxBoundaryLen + 1)
    /\ pc = "char_boundary"
    /\ out = <<>>
    /\ ret = None
    /\ esc = 0 /\ delims = <<>> /\ rest = None /\ done = 0 /\ curr = None
    /\ splits = <<>> /\ iter = 0
    /\ indices = <<>> /\ radix = 0 /\ ty = None
    /\ SubstrIdle
    /\ EscapeIdle

\* a call of char_boundary(input, index)
CallCharBoundary ==
    /\ pc = "char_boundary"
    /\ ~Called("char_boundary")
    /\ ret' = Some(char_boundary(input, index))
    /\ out' = Append(out, [call |-> "char_boundary", result |-> char_boundary(input, index)])
    /\ UNCHANGED <<input, index, indices, radix, ty, charset, result, esc, delims,
                   max, pc, iter, seen, current, longest, rest, done, curr, splits>>

\* a call of char_boundary_mut(input, index) on a String of the same text
CallCharBoundaryMut ==
    /\ pc = "char_boundary"
    /\ ~Called("char_boundary_mut")
    /\ ret' = Some(char_boundary_mut(input, index))
    /\ out' = Append(out, [call |-> "char_boundary_mut",
                           result |-> char_boundary_mut(input, index)])
    /\ UNCHANGED <<input, index, indices, radix, ty, charset, result, esc, delims,
                   max, pc, iter, seen, current, longest, rest, done, curr, splits>>

NextBoundary == CallCharBoundary \/ CallCharBoundaryMut

SpecBoundary == InitBoundary /\ [][NextBoundary]_vars

----------------------------------------------------------------------------
(* split::n_times *)

NTimesChars == {LetterA, LetterB, OUmlaut}

\* the loop over indices.iter().enumerate(), from the k-th index on: the
\* pieces res[k..] for the prev left by the indices before
RECURSIVE NTimesLoop(_, _, _, _)
NTimesLoop(s, ixs, k, prev) ==
    IF k > Len(ixs) THEN <<>>
    ELSE <<Slice(s, prev, ixs[k])>> \o NTimesLoop(s, ixs, k + 1, ixs[k])

\* what a get_unchecked off a char boundary may leave behind
UndefinedOutcomes ==
    {[undefined |-> "a str that is not UTF-8"], [undefined |-> "anything else"]}

InitNTimes ==
    /\ input \in SeqsUpTo(NTimesChars, MaxNTimesLen)
    /\ indices \in SeqsUpTo(0..(2 * MaxNTimesLen + 1), MaxIndices)
    /\ IsSorted(indices)
    /\ pc = "n_times"
    /\ ret = None
    /\ out = <<>>
    /\ esc = 0 /\ delims = <<>> /\ rest = None /\ done = 0 /\ curr = None
    /\ splits = <<>> /\ iter = 0
    /\ index = 0 /\ radix = 0 /\ ty = None
    /\ SubstrIdle
    /\ EscapeIdle

\* split::n_times(input, indices)
n_times ==
    /\ pc = "n_times"
    /\ IF indices = <<>>
       THEN /\ ret' = Some([res |-> <<>>, rest |-> input])
            /\ pc' = "n_times_ret"
       ELSE IF ~(indices[Len(indices)] <= StrLen(input))
       THEN /\ pc' = "panic"
            /\ UNCHANGED ret
       ELSE IF \A k \in 1..Len(indices) : IsCharBoundary(input, indices[k])
       THEN /\ ret' = Some([res |-> NTimesLoop(input, indices, 1, 0),
                            rest |-> Slice(input, indices[Len(indices)], StrLen(input))])
            /\ pc' = "n_times_ret"
       ELSE /\ \E o \in UndefinedOutcomes : ret' = Some(o)
            /\ pc' = "n_times_ub"
    /\ UNCHANGED <<input, index, indices, radix, ty, charset, result, esc, delims,
                   max, iter, seen, current, longest, rest, done, curr, out, splits>>

NextNTimes == n_times

SpecNTimes == InitNTimes /\ [][NextNTimes]_vars

----------------------------------------------------------------------------
(* parse::num: from_str_radix_front and from_str_radix_back.  The inputs are *)
(* ASCII, so the bytes the code walks over are the chars of the input.       *)

RadixChars == {Minus, Plus, Zero, One, Two, Nine, Bang}

\* the inputs: every short text, and longer runs of digits with leading zeros
RadixInputs ==
    SeqsUpTo(RadixChars, MaxRadixLen) \cup SeqsUpTo({Zero, One}, MaxPaddedLen)

RadixChoices == {10, 36, 37}

\* the integer types the functions are called for
I8 == [signed |-> TRUE, bits |-> 8]
U8 == [signed |-> FALSE, bits |-> 8]

Pow2(n) == IF n = 8 THEN 256 ELSE 65536
MinOf(T) == IF T.signed THEN -(Pow2(T.bits) \div 2) ELSE 0
MaxOf(T) == IF T.signed THEN (Pow2(T.bits) \div 2) - 1 ELSE Pow2(T.bits) - 1

\* the variants of ParseIntPartialError, and the three consts of the helper
ERROR_INSUFFICIENT(T) == "Insufficient"
ERROR_OVERFLOW(T) == "Overflow"
ERROR_UNDERFLOW(T) == IF T.signed THEN "Underflow" ELSE "Overflow"

ParseOk(v, r) == [kind |-> "ok", val |-> v, rest |-> r]
ParseErr(e) == [kind |-> "err", err |-> e]
ParsePanic == [kind |-> "panic"]

\* char::to_digit(radix)
to_digit(c, rdx) ==
    LET d == IF c >= 48 /\ c <= 57 THEN c - 48
             ELSE IF c >= 97 /\ c <= 122 THEN c - 97 + 10
             ELSE IF c >= 65 /\ c <= 90 THEN c - 65 + 10
             ELSE 36
    IN  IF d < rdx THEN Some(d) ELSE None

\* "other as Self": the low bits of a u32, read in two's complement if signed
AsSelf(T, other) ==
    LET low == other % Pow2(T.bits)
    IN  IF T.signed /\ low > MaxOf(T) THEN low - Pow2(T.bits) ELSE low

Checked(T, v) == IF v >= MinOf(T) /\ v <= MaxOf(T) THEN Some(v) ELSE None

\* the helper's checked_mul, checked_sub, checked_add and checked_neg
checked_mul(T, x, other) == Checked(T, x * AsSelf(T, other))
checked_sub(T, x, other) == Checked(T, x - AsSelf(T, other))
checked_add(T, x, other) == Checked(T, x + AsSelf(T, other))
checked_neg(T, x) == IF T.signed THEN Checked(T, -x) ELSE Some(x)

\* a u32 in two halves of 16 bits, and u32::checked_mul by a number below 37
U32(n) == [lo |-> n % 65536, hi |-> n \div 65536]
U32CheckedMul(x, m) ==
    LET lo == x.lo * m
        hi == x.hi * m + (lo \div 65536)
    IN  IF hi >= 65536 THEN None ELSE Some([lo |-> lo % 65536, hi |-> hi])

\* "s as Self" for a u32 s: only the low half reaches the low bits of Self
U32AsSelf(T, x) == AsSelf(T, x.lo)

\* the for loops of from_str_radix_front, from the k-th byte of rest on
RECURSIVE FrontLoop(_, _, _, _, _, _, _)
FrontLoop(T, r, rdx, is_neg, k, buf, num) ==
    IF k > Len(r)
    THEN IF num THEN ParseOk(buf, <<>>) ELSE ParseErr(ERROR_INSUFFICIENT(T))
    ELSE LET maybe_digit == to_digit(r[k], rdx)
         IN  IF ~maybe_digit.some
             THEN IF num THEN ParseOk(buf, SubSeq(r, k, Len(r)))
                  ELSE ParseErr(ERROR_INSUFFICIENT(T))
             ELSE LET err == IF is_neg THEN ERROR_UNDERFLOW(T) ELSE ERROR_OVERFLOW(T)
                      mul == checked_mul(T, buf, rdx)
                  IN  IF ~mul.some THEN ParseErr(err)
                      ELSE LET acc == IF is_neg
                                      THEN checked_sub(T, mul.val, maybe_digit.val)
                                      ELSE checked_add(T, mul.val, maybe_digit.val)
                           IN  IF ~acc.some THEN ParseErr(err)
                               ELSE FrontLoop(T, r, rdx, is_neg, k + 1, acc.val, TRUE)

\* from_str_radix_front::<T>(input, radix)
from_str_radix_front(T, inp, rdx) ==
    IF ~(rdx >= 2 /\ rdx <= 36) THEN ParsePanic
    ELSE IF inp /= <<>> /\ inp[1] = Minus /\ ~T.signed THEN ParseErr(ERROR_INSUFFICIENT(T))
    ELSE LET is_neg == inp /= <<>> /\ inp[1] = Minus
             r == IF inp /= <<>> /\ (inp[1] = Minus \/ inp[1] = Plus) THEN Tail(inp) ELSE inp
         IN  IF r = <<>> THEN ParseErr(ERROR_INSUFFICIENT(T))
             ELSE FrontLoop(T, r, rdx, is_neg, 1, 0, FALSE)

\* what follows the loops of from_str_radix_back
BackEnd(T, inp, buf, num, len, is_neg) ==
    LET neg == IF T.signed /\ ~is_neg THEN checked_neg(T, buf) ELSE Some(buf)
    IN  IF ~neg.some THEN ParseErr(ERROR_OVERFLOW(T))
        ELSE IF num THEN ParseOk(neg.val, SubSeq(inp, 1, Len(inp) - len))
        ELSE ParseErr(ERROR_INSUFFICIENT(T))

\* the for loops of from_str_radix_back over the bytes in reverse, the k-th
\* byte being the next; factor is an Option<u32>
RECURSIVE BackLoop(_, _, _, _, _, _, _, _)
BackLoop(T, inp, rdx, k, buf, num, len, factor) ==
    IF k < 1 THEN BackEnd(T, inp, buf, num, len, FALSE)
    ELSE LET digit == to_digit(inp[k], rdx)
             err == IF T.signed THEN ERROR_UNDERFLOW(T) ELSE ERROR_OVERFLOW(T)
         IN  IF ~digit.some
             THEN IF inp[k] = Minus /\ T.signed THEN BackEnd(T, inp, buf, num, len + 1, TRUE)
                  ELSE IF inp[k] = Plus THEN BackEnd(T, inp, buf, num, len + 1, FALSE)
                  ELSE BackEnd(T, inp, buf, num, len, FALSE)
             ELSE IF ~factor.some THEN ParseErr(err)
             ELSE LET s == U32CheckedMul(factor.val, digit.val)
                      acc == IF ~s.some THEN None
                             ELSE IF T.signed THEN checked_sub(T, buf, U32AsSelf(T, s.val))
                             ELSE checked_add(T, buf, U32AsSelf(T, s.val))
                  IN  IF ~acc.some THEN ParseErr(err)
                      ELSE BackLoop(T, inp, rdx, k - 1, acc.val, TRUE, len + 1,
                                    U32CheckedMul(factor.val, rdx))

\* from_str_radix_back::<T>(input, radix)
from_str_radix_back(T, inp, rdx) ==
    IF ~(rdx >= 2 /\ rdx <= 36) THEN ParsePanic
    ELSE IF inp = <<>> THEN ParseErr(ERROR_INSUFFICIENT(T))
    ELSE BackLoop(T, inp, rdx, Len(inp), 0, FALSE, 0, Some(U32(1)))

InitRadix ==
    /\ input \in RadixInputs
    /\ radix \in RadixChoices
    /\ ty \in {I8, U8}
    /\ pc = "parse"
    /\ out = <<>>
    /\ ret = None
    /\ esc = 0 /\ delims = <<>> /\ rest = None /\ done = 0 /\ curr = None
    /\ splits = <<>> /\ iter = 0
    /\ index = 0 /\ indices = <<>>
    /\ SubstrIdle
    /\ EscapeIdle

\* a call of T::from_str_radix_front(input, radix)
CallFromStrRadixFront ==
    /\ pc = "parse"
    /\ ~Called("from_str_radix_front")
    /\ LET r == from_str_radix_front(ty, input, radix)
       IN  /\ ret' = Some(r)
           /\ out' = Append(out, [call |-> "from_str_radix_front", result |-> r])
           /\ pc' = IF r = ParsePanic THEN "panic" ELSE pc
    /\ UNCHANGED <<input, index, indices, radix, ty, charset, result, esc, delims,
                   max, iter, seen, current, longest, rest, done, curr, splits>>

\* a call of T::from_str_radix_back(input, radix)
CallFromStrRadixBack ==
    /\ pc = "parse"
    /\ ~Called("from_str_radix_back")
    /\ LET r == from_str_radix_back(ty, input, radix)
       IN  /\ ret' = Some(r)
           /\ out' = Append(out, [call |-> "from_str_radix_back", result |-> r])
           /\ pc' = IF r = ParsePanic THEN "panic" ELSE pc
    /\ UNCHANGED <<input, index, indices, radix, ty, charset, result, esc, delims,
                   max, iter, seen, current, longest, rest, done, curr, splits>>

NextRadix == CallFromStrRadixFront \/ CallFromStrRadixBack

SpecRadix == InitRadix /\ [][NextRadix]_vars

----------------------------------------------------------------------------
(* parse: yield_front, yield_back, yield_literal_front, yield_literal_back.  *)
(* The variable input is the caller's &mut &str.                             *)

\* "true" and "false"
TrueLit == <<116, 114, 117, 101>>
FalseLit == <<102, 97, 108, 115, 101>>

YieldTokens == {TrueLit, FalseLit, <<One, Two>>, <<Minus, One>>, <<Bang>>}

\* the texts made of up to n tokens
RECURSIVE TokenTexts(_)
TokenTexts(n) ==
    IF n = 0 THEN {<<>>}
    ELSE TokenTexts(n - 1) \cup {t \o w : t \in YieldTokens, w \in TokenTexts(n - 1)}

Literals == {<<>>, <<Bang>>, TrueLit}

\* bool as a type the parse functions are called for
Bool == [signed |-> FALSE, bits |-> 1]
YieldTypes == {I8, U8, Bool}

\* str::strip_prefix and str::strip_suffix
strip_prefix(s, lit) ==
    IF Len(lit) <= Len(s) /\ SubSeq(s, 1, Len(lit)) = lit
    THEN Some(SubSeq(s, Len(lit) + 1, Len(s)))
    ELSE None
strip_suffix(s, lit) ==
    IF Len(lit) <= Len(s) /\ SubSeq(s, Len(s) - Len(lit) + 1, Len(s)) = lit
    THEN Some(SubSeq(s, 1, Len(s) - Len(lit)))
    ELSE None

\* <bool as FromStrFront>::from_str_front and <bool as FromStrBack>::from_str_back
bool_from_str_front(inp) ==
    IF strip_prefix(inp, TrueLit).some THEN ParseOk(TRUE, strip_prefix(inp, TrueLit).val)
    ELSE IF strip_prefix(inp, FalseLit).some
    THEN ParseOk(FALSE, strip_prefix(inp, FalseLit).val)
    ELSE ParseErr("ParseBoolError")
bool_from_str_back(inp) ==
    IF strip_suffix(inp, TrueLit).some THEN ParseOk(TRUE, strip_suffix(inp, TrueLit).val)
    ELSE IF strip_suffix(inp, FalseLit).some
    THEN ParseOk(FALSE, strip_suffix(inp, FalseLit).val)
    ELSE ParseErr("ParseBoolError")

\* T::from_str_front and T::from_str_back: radix 10 for the integers
from_str_front(T, inp) ==
    IF T = Bool THEN bool_from_str_front(inp) ELSE from_str_radix_front(T, inp, 10)
from_str_back(T, inp) ==
    IF T = Bool THEN bool_from_str_back(inp) ELSE from_str_radix_back(T, inp, 10)

\* a yield that writes the rest back whatever the outcome of the parse
InputAfterYield_AlwaysWrites(inp, r) == IF r.kind = "ok" THEN r.rest ELSE <<>>

\* "let (result, rest) = ..?; *input = rest;": the input after the call
InputAfterYield(inp, r) == IF r.kind = "ok" THEN r.rest ELSE inp

\* "if let Some(rest) = .. { *input = rest; true } else { false }"
InputAfterLiteral(inp, stripped) == IF stripped.some THEN stripped.val ELSE inp

\* the value the yield returns: the parsed value without the rest, or the error
YieldResult(r) == IF r.kind = "ok" THEN [kind |-> "ok", val |-> r.val] ELSE r

InitYield ==
    /\ input \in TokenTexts(MaxTokens)
    /\ pc = "yield"
    /\ out = <<>>
    /\ ret = None
    /\ esc = 0 /\ delims = <<>> /\ rest = None /\ done = 0 /\ curr = None
    /\ splits = <<>> /\ iter = 0
    /\ index = 0 /\ indices = <<>> /\ radix = 0 /\ ty = None
    /\ SubstrIdle
    /\ EscapeIdle

\* T::yield_front(&mut input)
yield_front ==
    /\ pc = "yield" /\ Len(out) < MaxYieldCalls
    /\ \E T \in YieldTypes :
           LET r == from_str_front(T, input)
           IN  /\ input' = InputAfterYield(input, r)
               /\ ret' = Some(YieldResult(r))
               /\ out' = Append(out, [call |-> "yield_front", arg |-> T, before |-> input,
                                      after |-> InputAfterYield(input, r),
                                      result |-> YieldResult(r)])
    /\ UNCHANGED <<index, indices, radix, ty, charset, result, esc, delims, max, pc,
                   iter, seen, current, longest, rest, done, curr, splits>>

\* T::yield_back(&mut input)
yield_back ==
    /\ pc = "yield" /\ Len(out) < MaxYieldCalls
    /\ \E T \in YieldTypes :
           LET r == from_str_back(T, input)
           IN  /\ input' = InputAfterYield(input, r)
               /\ ret' = Some(YieldResult(r))
               /\ out' = Append(out, [call |-> "yield_back", arg |-> T, before |-> input,
                                      after |-> InputAfterYield(input, r),
                                      result |-> YieldResult(r)])
    /\ UNCHANGED <<index, indices, radix, ty, charset, result, esc, delims, max, pc,
                   iter, seen, current, longest, rest, done, curr, splits>>

\* parse::yield_literal_front(&mut input, literal)
yield_literal_front ==
    /\ pc = "yield" /\ Len(out) < MaxYieldCalls
    /\ \E literal \in Literals :
           LET stripped == strip_prefix(input, literal)
           IN  /\ input' = InputAfterLiteral(input, stripped)
               /\ ret' = Some(stripped.some)
               /\ out' = Append(out, [call |-> "yield_literal_front", arg |-> literal,
                                      before |-> input,
                                      after |-> InputAfterLiteral(input, stripped),
                                      result |-> stripped.some])
    /\ UNCHANGED <<index, indices, radix, ty, charset, result, esc, delims, max, pc,
                   iter, seen, current, longest, rest, done, curr, splits>>

\* parse::yield_literal_back(&mut input, literal)
yield_literal_back ==
    /\ pc = "yield" /\ Len(out) < MaxYieldCalls
    /\ \E literal \in Literals :
           LET stripped == strip_suffix(input, literal)
           IN  /\ input' = InputAfterLiteral(input, stripped)
               /\ ret' = Some(stripped.some)
               /\ out' = Append(out, [call |-> "yield_literal_back", arg |-> literal,
                                      before |-> input,
                                      after |-> InputAfterLiteral(input, stripped),
                                      result |-> stripped.some])
    /\ UNCHANGED <<index, indices, radix, ty, charset, result, esc, delims, max, pc,
                   iter, seen, current, longest, rest, done, curr, splits>>

NextYield == yield_front \/ yield_back \/ yield_literal_front \/ yield_literal_back

SpecYield == InitYield /\ [][NextYield]_vars

----------------------------------------------------------------------------
(* Claims about find::longest_unique_substr *)

Unique(s) == \A i, j \in 1..Len(s) : i /= j => s[i] /= s[j]

SubstrReturned == pc = "substr_ret" /\ ret.some

\* every pair of byte offsets a <= b on char boundaries of s
Boundaries(s) == {OffsetOf(s, k) : k \in 1..(Len(s) + 1)}

\* C1: the returned byte range covers only pairwise-distinct chars: no char
\* occurs twice inside input[range], for every input and every optional max.
C1_RangeIsUnique ==
    SubstrReturned => Unique(Slice(input, ret.val.start, ret.val.end))

\* C9: when a max is supplied, the byte length of the returned range never
\* exceeds max.
C9_RangeWithinMax ==
    (SubstrReturned /\ max.some) => RangeLen(ret.val) <= max.val

\* C10: with no max, the returned range is at least as long, in bytes, as every
\* contiguous run of pairwise-distinct chars of the input.
C10_NoLongerUniqueRun ==
    (SubstrReturned /\ ~max.some) =>
        \A a \in Boundaries(input) : \A b \in Boundaries(input) :
            (a <= b /\ Unique(Slice(input, a, b))) => b - a <= RangeLen(ret.val)

\* a scan without max that met a duplicate and returned a run that is not the
\* whole input and does not start at offset 0
C10_Witness ==
    /\ SubstrReturned /\ ~max.some
    /\ Len(input) >= 4
    /\ ~Unique(input)
    /\ ret.val.start > 0
    /\ Len(Slice(input, ret.val.start, ret.val.end)) >= 3
    /\ Unique(Slice(input, ret.val.start, ret.val.end))

\* the byte ranges of the longest runs of pairwise-distinct chars of the input
UniqueRuns ==
    {r \in Boundaries(input) \X Boundaries(input) :
        r[1] <= r[2] /\ Unique(Slice(input, r[1], r[2]))}

LongestUniqueRuns ==
    {r \in UniqueRuns : \A q \in UniqueRuns : q[2] - q[1] <= r[2] - r[1]}

\* C11: with no max, the returned range is the leftmost of the runs of
\* pairwise-distinct chars that share the maximum length.
C11_LeftmostOfLongest ==
    (SubstrReturned /\ ~max.some) =>
        /\ <<ret.val.start, ret.val.end>> \in LongestUniqueRuns
        /\ \A r \in LongestUniqueRuns : ret.val.start <= r[1]

C21_RangeOnCharBoundaries ==
    SubstrReturned =>
        /\ 0 <= ret.val.start
        /\ ret.val.start <= ret.val.end
        /\ ret.val.end <= StrLen(input)
        /\ IsCharBoundary(input, ret.val.start)
        /\ IsCharBoundary(input, ret.val.end)

\* a scan returned a range inside the input that starts and ends next to a
\* char of two bytes
C21_Witness ==
    /\ SubstrReturned
    /\ 0 < ret.val.start /\ ret.val.start < ret.val.end
    /\ ret.val.end < StrLen(input)
    /\ Slice(input, 0, ret.val.start)[Len(Slice(input, 0, ret.val.start))] = OUmlaut
    /\ Slice(input, ret.val.end, StrLen(input))[1] = OUmlaut

\* the chars of the window of the scan
Window == Slice(input, current.start, current.end)

\* C26: during the scan, after each char is processed, the seen-map holds
\* exactly the chars of the current window, each mapped to the byte offset of
\* its occurrence inside the window; no entry lies before the window's start.
C26_SeenIsTheWindow ==
    pc = "substr_loop" =>
        /\ {seen[i].key : i \in 1..Len(seen)} = {Window[k] : k \in 1..Len(Window)}
        /\ \A i \in 1..Len(seen) :
               /\ current.start <= seen[i].value
               /\ seen[i].value < current.end
               /\ Slice(input, seen[i].value, StrLen(input))[1] = seen[i].key

\* the scan returned early, before the end of the input
EarlyReturn == SubstrReturned /\ iter < Len(input)

\* C27: when the scan stops early because the next char would make the window
\* exceed max, the window it returns is at least as long as every range that
\* was recorded as longest before.
C27_EarlyReturnNotBeaten ==
    EarlyReturn => RangeLen(ret.val) >= RangeLen(longest)

\* one char repeated
Repeated(s) == Len(s) >= 1 /\ \A k \in 1..Len(s) : s[k] = s[1]

\* C28: for the empty input the result is the empty range 0..0; for one char
\* repeated n >= 1 times, with no max or a max of at least the char's byte
\* length, the result is the range of the first occurrence only.
C28_EmptyAndRepeatedInput ==
    SubstrReturned =>
        /\ input = <<>> => ret.val = Range(0, 0)
        /\ (Repeated(input) /\ (max.some => max.val >= len_utf8(input[1]))) =>
               ret.val = Range(0, len_utf8(input[1]))

\* a scan over a char of two bytes repeated several times, with a max that
\* leaves room for more than one of them, returned the first occurrence
C28_Witness ==
    /\ SubstrReturned
    /\ Repeated(input) /\ Len(input) >= 3 /\ input[1] = OUmlaut
    /\ max = Some(4)
    /\ ret.val = Range(0, 2)

----------------------------------------------------------------------------
(* Claims about the splitters.  The reference notions below are stated on   *)
(* the input alone, by the position p (from 1) of a char of input.          *)

\* the length of the maximal run of esc chars immediately before position p
RECURSIVE EscRunBefore(_)
EscRunBefore(p) == IF p > 1 /\ input[p - 1] = esc THEN 1 + EscRunBefore(p - 1) ELSE 0

IsEscaped(p) == EscRunBefore(p) % 2 = 1

\* a delimiter that is a split point
RefSplitAt(p) == Contains(delims, input[p]) /\ ~IsEscaped(p)

RefSplits == {p \in 1..Len(input) : RefSplitAt(p)}

\* an escape sequence starts at p: an unescaped esc followed by another char
EscSequenceAt(p) == input[p] = esc /\ ~IsEscaped(p) /\ p < Len(input)

\* the esc at p is one that sanitizing removes
RemovedAt(p) ==
    EscSequenceAt(p) /\ (input[p + 1] = esc \/ Contains(delims, input[p + 1]))

NthSplit(i) == CHOOSE p \in RefSplits : Cardinality({q \in RefSplits : q < p}) = i - 1

\* the i-th segment's source text is input at positions RefSegStart(i)..RefSegEnd(i)
RefSegStart(i) == IF i = 1 THEN 1 ELSE NthSplit(i - 1) + 1
RefSegEnd(i) == IF i <= Cardinality(RefSplits) THEN NthSplit(i) - 1 ELSE Len(input)
RefSegSource(i) == SubSeq(input, RefSegStart(i), RefSegEnd(i))
RefSegCount == Cardinality(RefSplits) + 1

\* the chars at positions a..b that sanitizing keeps
RECURSIVE RefPiece(_, _)
RefPiece(a, b) ==
    IF a > b THEN <<>>
    ELSE (IF RemovedAt(a) THEN <<>> ELSE <<input[a]>>) \o RefPiece(a + 1, b)

\* the items next() returned that were Some
Yielded == [i \in 1..(Len(out) - NoneCount(out)) |-> out[i].val]

SanitizeRuns == pc = "NonEscapedSanitize"
Exhausted ==
    \/ pc = "NonEscaped" /\ ~rest.some
    \/ pc = "NonEscapedSanitize" /\ ~curr.some

SplitOffsets == {splits[i] : i \in 1..Len(splits)}

\* C2: the segments of the sanitizing splitter are exactly the pieces of the
\* input between consecutive unescaped delimiters, with every escape that
\* escapes a delimiter or an escape removed and every other char kept in order.
C2_SegmentsAreSanitizedPieces ==
    SanitizeRuns =>
        /\ Len(Yielded) <= RefSegCount
        /\ Exhausted => Len(Yielded) = RefSegCount
        /\ \A i \in 1..Len(Yielded) :
               Yielded[i].s = RefPiece(RefSegStart(i), RefSegEnd(i))

\* C3: if the input ends with an escape that has no char after it and is not
\* itself escaped, the last segment ends with that escape and still holds
\* every char of the segment before it: nothing of the segment is dropped.
C3_TrailingEscapeDropsNothing ==
    (/\ SanitizeRuns /\ Exhausted
     /\ Len(input) > 0 /\ input[Len(input)] = esc /\ ~IsEscaped(Len(input))) =>
        /\ Len(Yielded) = RefSegCount
        /\ Yielded[RefSegCount].s =
               RefPiece(RefSegStart(RefSegCount), Len(input) - 1) \o <<esc>>

\* C4: constructing either splitter returns the error, carrying esc, if and
\* only if esc is a member of delims, whatever the input; an error stands before
\* any segment is produced, and iteration only ever returns Option items.
C4_ErrorIffEscInDelims ==
    pc /= "split_new" =>
        /\ ret.some
        /\ (ret.val = Err(esc)) <=> Contains(delims, esc)
        /\ (ret.val /= Err(esc)) => ret.val = Ok
        /\ (ret.val = Err(esc)) => (pc = "split_err" /\ out = <<>>)
        /\ (pc = "split_err") => ret.val = Err(esc)

\* construction failed on the empty input, esc being the last of two delimiters
C4_Witness ==
    /\ pc = "split_err" /\ input = <<>>
    /\ Len(delims) = 2 /\ delims[1] /= esc /\ delims[2] = esc
    /\ ret = Some(Err(esc))

\* the char of input that starts at byte offset off
CharAt(off) == Slice(input, off, StrLen(input))[1]

\* s_1 d_1 s_2 d_2 ... for the first n yielded slices and split delimiters
RECURSIVE JoinedWithDelims(_)
JoinedWithDelims(n) ==
    IF n = 0 THEN <<>>
    ELSE JoinedWithDelims(n - 1) \o Yielded[n] \o <<CharAt(splits[n])>>

\* C5: the slices yielded by the unsanitized splitter, interleaved with the
\* delimiters at which it split, concatenate to exactly the input; each slice
\* is an unmodified piece of the input, escapes included.
C5_SlicesAndDelimsAreInput ==
    pc = "NonEscaped" =>
        /\ \A i \in 1..Len(splits) : Contains(delims, CharAt(splits[i]))
        /\ IF rest.some
           THEN /\ Len(Yielded) = Len(splits)
                /\ JoinedWithDelims(Len(splits)) \o rest.val = input
           ELSE /\ Len(Yielded) = Len(splits) + 1
                /\ JoinedWithDelims(Len(splits)) \o Yielded[Len(Yielded)] = input

\* an exhausted unsanitized split into three slices, one of which kept an escape
C5_Witness ==
    /\ pc = "NonEscaped" /\ ~rest.some
    /\ Len(splits) = 2
    /\ \E i \in 1..Len(Yielded) : Contains(Yielded[i], esc)
    /\ \E i \in 1..Len(Yielded) : Yielded[i] = <<>>

\* C6: in both splitters a delimiter char is a split point if and only if the
\* maximal run of escape chars immediately before it has even length.
C6_SplitIffEvenEscapeRun ==
    pc \in {"NonEscaped", "NonEscapedSanitize"} =>
        /\ \A off \in SplitOffsets :
               \E p \in 1..Len(input) :
                   /\ OffsetOf(input, p) = off
                   /\ Contains(delims, input[p])
                   /\ EscRunBefore(p) % 2 = 0
        /\ \A p \in 1..Len(input) :
               (/\ Contains(delims, input[p])
                /\ EscRunBefore(p) % 2 = 0
                /\ (Exhausted \/ \E off \in SplitOffsets : OffsetOf(input, p) < off))
               => OffsetOf(input, p) \in SplitOffsets

\* an exhausted splitter whose input held a delimiter after one escape (no
\* split) and a delimiter after two escapes (a split)
C6_Witness ==
    /\ Exhausted
    /\ \E p \in 1..Len(input) :
           Contains(delims, input[p]) /\ EscRunBefore(p) = 1
           /\ OffsetOf(input, p) \notin SplitOffsets
    /\ \E p \in 1..Len(input) :
           Contains(delims, input[p]) /\ EscRunBefore(p) = 2
           /\ OffsetOf(input, p) \in SplitOffsets

\* C7 as claimed: a yielded segment is borrowed if and only if no escape was
\* removed while building it.
C7_BorrowedIffNoRemoval ==
    SanitizeRuns =>
        \A i \in 1..Len(Yielded) :
            Yielded[i].borrowed <=>
                ~\E p \in RefSegStart(i)..RefSegEnd(i) : RemovedAt(p)

\* C7 amended: a yielded segment is borrowed if and only if its source text
\* holds no escape sequence (an unescaped escape followed by another char),
\* whether that escape is removed or kept.
C7_BorrowedIffNoEscSequence ==
    SanitizeRuns =>
        /\ Len(Yielded) <= RefSegCount
        /\ \A i \in 1..Len(Yielded) :
               Yielded[i].borrowed <=>
                   ~\E p \in RefSegStart(i)..RefSegEnd(i) : EscSequenceAt(p)

\* an owned segment from which nothing was removed, and a borrowed one that
\* is a lone trailing escape
C7_Witness ==
    /\ SanitizeRuns /\ Exhausted
    /\ Len(Yielded) = 2
    /\ ~Yielded[1].borrowed /\ Yielded[1].s = RefSegSource(1)
    /\ Yielded[2] = Borrowed(<<esc>>)

\* C8: every segment whose source text holds no escape char is yielded
\* borrowed and equal to that piece of the input, at every segment position.
C8_EscapeFreeSegmentBorrowed ==
    SanitizeRuns =>
        /\ Len(Yielded) <= RefSegCount
        /\ \A i \in 1..Len(Yielded) :
               ~Contains(RefSegSource(i), esc) => Yielded[i] = Borrowed(RefSegSource(i))

\* an owned segment followed by an empty borrowed one and a non-empty borrowed one
C8_Witness ==
    /\ SanitizeRuns /\ Exhausted
    /\ Len(Yielded) = 3
    /\ ~Yielded[1].borrowed
    /\ Yielded[2] = Borrowed(<<>>)
    /\ Yielded[3].borrowed /\ Yielded[3].s /= <<>>
    /\ ~Contains(RefSegSource(2), esc) /\ ~Contains(RefSegSource(3), esc)


\* a splitter was constructed and is being iterated
SplitterRuns == pc = "NonEscaped" \/ pc = "NonEscapedSanitize"

\* the text of the i-th yielded segment, a &str or a Cow<str>
SegText(i) == IF SanitizeRuns THEN Yielded[i].s ELSE Yielded[i]

\* C13: for a non-empty input each splitter yields a final segment at the end
\* of the input only if non-empty content remains after the last split point:
\* an input that ends in an unescaped delimiter gives no trailing empty segment.
C13_NoTrailingEmptySegment ==
    (SplitterRuns /\ Exhausted /\ Len(input) > 0) =>
        Len(Yielded) = Cardinality(RefSplits)
                         + (IF RefSplitAt(Len(input)) THEN 0 ELSE 1)

\* C13, amended: for a non-empty input each splitter yields a final segment at
\* the end of the input whether or not content remains after the last split
\* point: k split points give k + 1 segments, and an input that ends in an
\* unescaped delimiter gives a trailing empty segment.
C13_TrailingEmptySegment ==
    (SplitterRuns /\ Exhausted /\ Len(input) > 0) =>
        /\ Len(Yielded) = Cardinality(RefSplits) + 1
        /\ RefSplitAt(Len(input)) => SegText(Len(Yielded)) = <<>>

\* the unsanitized splitter finished an input that ends in an unescaped
\* delimiter after another split point
C13_Witness ==
    /\ pc = "NonEscaped" /\ Exhausted
    /\ Len(input) >= 3 /\ RefSplitAt(Len(input))
    /\ Cardinality(RefSplits) >= 2
    /\ Len(Yielded) = 3
    /\ Yielded[1] /= <<>>
    /\ Yielded[3] = <<>>


\* C14: for the empty input, esc not in delims, the sanitizing splitter yields
\* exactly one segment, which is empty and borrowed, and then ends.
C14_EmptyInputOneBorrowedSegment ==
    (SanitizeRuns /\ input = <<>>) =>
        /\ Len(out) >= 1 => out[1] = Some(Borrowed(<<>>))
        /\ \A i \in 2..Len(out) : out[i] = None
        /\ (out = <<>>) <=> curr.some

\* the sanitizing splitter over the empty input was called past its end
C14_Witness ==
    /\ SanitizeRuns /\ input = <<>>
    /\ ~Contains(delims, esc)
    /\ Len(out) = 3
    /\ out[1] = Some(Borrowed(<<>>))
    /\ out[3] = None


\* the slices joined with the char d between consecutive slices
RECURSIVE Join(_, _)
Join(segs, d) ==
    IF Len(segs) = 0 THEN <<>>
    ELSE IF Len(segs) = 1 THEN segs[1]
    ELSE (segs[1] \o <<d>>) \o Join(Tail(segs), d)

\* C18: joining the slices the unsanitized splitter yielded with any single
\* delimiter of delims between consecutive slices and splitting the joined
\* text again, with the same esc and delims, yields the same slices.
C18_JoinThenSplitAgain ==
    (pc = "NonEscaped" /\ Exhausted) =>
        \A k \in 1..Len(delims) :
            NonEscapedCollect(Some(Join(Yielded, delims[k])), esc, delims) = Yielded

\* the unsanitized splitter finished an input with an escaped delimiter and a
\* split point, and a second delimiter to join with that is not in the input
C18_Witness ==
    /\ pc = "NonEscaped" /\ Exhausted
    /\ Len(Yielded) >= 2
    /\ \E p \in 1..Len(input) : Contains(delims, input[p]) /\ IsEscaped(p)
    /\ \E k \in 1..Len(delims) :
           /\ \A p \in 1..Len(input) : input[p] /= delims[k]
           /\ Join(Yielded, delims[k]) /= input
           /\ NonEscapedCollect(Some(Join(Yielded, delims[k])), esc, delims) = Yielded

\* the last call of next() returned None
LastIsNone == Len(out) > 0 /\ ~out[Len(out)].some

\* C19: calling next() again and again on either splitter eventually returns
\* None, after at most n + 1 segments for an input of n chars, and once None
\* has been returned every later call returns None as well: call n + 2 at the
\* latest returns None, and no segment follows a None.
C19_EventuallyNoneThenAlwaysNone ==
    SplitterRuns =>
        /\ Len(Yielded) <= Len(input) + 1
        /\ Len(out) >= Len(input) + 2 => LastIsNone
        /\ \A i \in 1..Len(out) : \A j \in i..Len(out) : ~out[i].some => out[j] = None

\* a splitter yielded n + 1 segments for n chars and was then called twice
C19_Witness ==
    /\ SplitterRuns
    /\ Len(input) >= 2
    /\ Len(out) = Len(input) + 3
    /\ Len(Yielded) = Len(input) + 1
    /\ out[Len(out) - 1] = None
    /\ out[Len(out)] = None

\* C20: no call of next() on a constructed splitter panics, calls after the end
\* included: in the sanitizing splitter curr is present whenever it is
\* unwrapped (it is None only once nothing is left to scan) and every slice input[done..jump] has done <= jump <= len on char
\* boundaries, and the unsanitized splitter splits only at the offset of a char.
C20_NextNeverPanics ==
    /\ pc /= "panic"
    /\ SanitizeRuns =>
           /\ done <= StrLen(input) /\ IsCharBoundary(input, done)
           /\ ~curr.some => (iter = Len(input) /\ done = StrLen(input))
    /\ SplitterRuns =>
           \A i \in 1..Len(splits) :
               splits[i] < StrLen(input) /\ IsCharBoundary(input, splits[i])

\* the sanitizing splitter went through an escape sequence, a split and a char
\* of two bytes, and was called twice after its end
C20_Witness ==
    /\ SanitizeRuns
    /\ NoneCount(out) = MaxExhaustedCalls
    /\ Len(splits) >= 1
    /\ \E p \in 1..Len(input) : EscSequenceAt(p)
    /\ \E p \in 1..Len(input) : input[p] = OUmlaut
    /\ done = StrLen(input)

----------------------------------------------------------------------------
(* Claims about escape::charset *)

CharsetReturned == pc = "charset_ret" /\ ret.some

\* a char that has to be escaped
Matching(c) == c = esc \/ Contains(charset, c)

\* s with one esc put before every matching char
RECURSIVE RefEscaped(_)
RefEscaped(s) ==
    IF s = <<>> THEN <<>>
    ELSE (IF Matching(s[1]) THEN <<esc, s[1]>> ELSE <<s[1]>>) \o RefEscaped(Tail(s))

MatchCount(s) == Cardinality({k \in 1..Len(s) : Matching(s[k])})

\* C15: charset returns the input with one esc inserted immediately before
\* every char that is esc or a member of the set, every other char unchanged
\* and in order: the output has exactly one more char per matching input char.
C15_EveryMatchingCharEscapedOnce ==
    CharsetReturned =>
        /\ ret.val.s = RefEscaped(input)
        /\ Len(ret.val.s) = Len(input) + MatchCount(input)

\* charset returned for an input with matching and other chars, esc among
\* the matching ones
C15_Witness ==
    /\ CharsetReturned
    /\ MatchCount(input) >= 2
    /\ MatchCount(input) < Len(input)
    /\ \E k \in 1..Len(input) : input[k] = esc
    /\ \E k \in 1..Len(input) : input[k] /= esc /\ Matching(input[k])
    /\ Len(ret.val.s) = Len(input) + MatchCount(input)


RECURSIVE Unescape(_)
Unescape(s) ==
    IF s = <<>> THEN <<>>
    ELSE IF s[1] = esc /\ Len(s) >= 2 THEN <<s[2]>> \o Unescape(SubSeq(s, 3, Len(s)))
    ELSE <<s[1]>> \o Unescape(Tail(s))

\* C17: unescaping the output of charset, replacing each pair (esc, c) by c
\* from left to right, gives the input back, for every input, esc and set.
C17_UnescapeGivesInput ==
    CharsetReturned => Unescape(ret.val.s) = input

\* charset returned for an input in which an escape stands before a member of
\* the set and before another char
C17_Witness ==
    /\ CharsetReturned
    /\ \E k \in 1..(Len(input) - 1) :
           input[k] = esc /\ input[k + 1] /= esc /\ Contains(charset, input[k + 1])
    /\ \E k \in 1..(Len(input) - 1) :
           input[k] = esc /\ ~Matching(input[k + 1])
    /\ Unescape(ret.val.s) = input
    /\ ret.val.s /= input


----------------------------------------------------------------------------
(* Claims about split::char_boundary *)

\* C22: char_boundary returns InputEmpty for the empty input whatever the
\* index, else IndexOutOfRange(index, len) if index >= len, else
\* NotUTF8Boundary(index) if index is inside a char, else Ok((before, ch,
\* after)) with before ++ ch ++ after = input and before of index bytes;
\* char_boundary_mut returns the same for the same arguments.
C22_BoundaryOutcome ==
    pc = "char_boundary" =>
        /\ \A k \in 1..Len(out) :
               LET r == out[k].result
               IN  /\ r.ok <=> index \in Boundaries(input) \ {StrLen(input)}
                   /\ (~r.ok /\ input = <<>>) => r.err = InputEmpty
                   /\ (~r.ok /\ input /= <<>> /\ index >= StrLen(input)) =>
                          r.err = IndexOutOfRange(index, StrLen(input))
                   /\ (~r.ok /\ input /= <<>> /\ index < StrLen(input)) =>
                          r.err = NotUTF8Boundary(index)
                   /\ r.ok => /\ (r.val[1] \o <<r.val[2]>>) \o r.val[3] = input
                              /\ StrLen(r.val[1]) = index
        /\ \A k \in 1..Len(out) : \A j \in 1..Len(out) : out[k].result = out[j].result

\* both functions were called inside a char of three bytes that stands
\* between two other chars
C22_Witness ==
    /\ pc = "char_boundary"
    /\ Called("char_boundary") /\ Called("char_boundary_mut")
    /\ Len(input) = 3 /\ input[2] = EuroSign
    /\ index = OffsetOf(input, 2) + 1
    /\ ret.val = [ok |-> FALSE, err |-> NotUTF8Boundary(index)]


----------------------------------------------------------------------------
(* Claims about split::n_times *)

RECURSIVE Concat(_)
Concat(segs) == IF segs = <<>> THEN <<>> ELSE segs[1] \o Concat(Tail(segs))

\* C25: n_times with sorted indices i_1 <= ... <= i_N, all <= the input length,
\* returns N pieces and a rest, piece k = input[i_(k-1)..i_k] with i_0 = 0 and
\* rest = input[i_N..]: the pieces and the rest concatenate to the input, a
\* repeated index gives an empty piece, N = 0 gives the whole input as rest; a
\* last index greater than the input length panics.
C25_PiecesBetweenIndices ==
    pc /= "n_times" =>
        IF indices /= <<>> /\ indices[Len(indices)] > StrLen(input)
        THEN pc = "panic"
        ELSE /\ pc = "n_times_ret"
             /\ Len(ret.val.res) = Len(indices)
             /\ \A k \in 1..Len(indices) :
                    StrLen(ret.val.res[k]) =
                        indices[k] - (IF k = 1 THEN 0 ELSE indices[k - 1])
             /\ Concat(ret.val.res) \o ret.val.rest = input
             /\ indices = <<>> => ret.val.rest = input


----------------------------------------------------------------------------
(* Claims about parse::num.  The value a run of digits denotes is computed   *)
(* with a ceiling far above the range of the types, so that it stays small.  *)

IsDigit(c) == to_digit(c, radix).some

RECURSIVE DenotedFrom(_, _)
DenotedFrom(ds, acc) ==
    IF ds = <<>> THEN acc
    ELSE LET v == acc * radix + to_digit(ds[1], radix).val
         IN  DenotedFrom(Tail(ds), IF v > 100000 THEN 100000 ELSE v)

\* the longest run of digits at the front of s, and at its back
RECURSIVE DigitsAtFront(_)
DigitsAtFront(s) ==
    IF s /= <<>> /\ IsDigit(s[1]) THEN <<s[1]>> \o DigitsAtFront(Tail(s)) ELSE <<>>

RECURSIVE DigitsAtBack(_)
DigitsAtBack(s) ==
    IF s /= <<>> /\ IsDigit(s[Len(s)])
    THEN Append(DigitsAtBack(SubSeq(s, 1, Len(s) - 1)), s[Len(s)])
    ELSE <<>>

Signed(sign, ds) ==
    [has |-> ds /= <<>>,
     val |-> IF sign = Minus THEN -DenotedFrom(ds, 0) ELSE DenotedFrom(ds, 0)]

\* the number the digits parsed from the front of the input denote
DenotedAtFront ==
    IF input /= <<>> /\ input[1] = Minus /\ ~ty.signed THEN [has |-> FALSE, val |-> 0]
    ELSE IF input /= <<>> /\ (input[1] = Minus \/ input[1] = Plus)
    THEN Signed(input[1], DigitsAtFront(Tail(input)))
    ELSE Signed(Plus, DigitsAtFront(input))

\* the number the digits parsed from the back of the input denote
DenotedAtBack ==
    LET ds == DigitsAtBack(input)
        before == Len(input) - Len(ds)
    IN  IF before >= 1 /\ input[before] = Minus /\ ty.signed THEN Signed(Minus, ds)
        ELSE Signed(Plus, ds)

DenotedFor(call) ==
    IF call = "from_str_radix_front" THEN DenotedAtFront ELSE DenotedAtBack

\* C23: from_str_radix_front and from_str_radix_back both return Overflow when
\* the parsed digits denote a value above the type's maximum and Underflow
\* when they denote a value below a signed type's minimum; Underflow is never
\* returned for an unsigned type.
C23_OutOfRangeByDirection ==
    pc = "parse" =>
        \A k \in 1..Len(out) :
            LET d == DenotedFor(out[k].call)
                r == out[k].result
            IN  /\ (d.has /\ d.val > MaxOf(ty)) => r = ParseErr("Overflow")
                /\ (d.has /\ d.val < MinOf(ty)) => r = ParseErr("Underflow")
                /\ ~ty.signed => r /= ParseErr("Underflow")

\* the whole input is an optional sign and one or more digits that denote a
\* value of the type
EntirelyValid ==
    LET sign == input /= <<>> /\ (input[1] = Plus \/ (input[1] = Minus /\ ty.signed))
        ds == IF sign THEN Tail(input) ELSE input
    IN  /\ ds /= <<>>
        /\ \A k \in 1..Len(ds) : IsDigit(ds[k])
        /\ DenotedAtFront.val >= MinOf(ty)
        /\ DenotedAtFront.val <= MaxOf(ty)

\* C30: for an input that is entirely a valid representation of an integer of
\* the type in the radix, leading zeros allowed, from_str_radix_front and
\* from_str_radix_back return the same: Ok with that value and an empty rest.
C30_FrontAndBackAgree ==
    (pc = "parse" /\ EntirelyValid) =>
        \A k \in 1..Len(out) : out[k].result = ParseOk(DenotedAtFront.val, <<>>)


----------------------------------------------------------------------------
(* Claims about parse::yield_* *)

\* the call recorded in e succeeded
Succeeded(e) ==
    IF e.call \in {"yield_front", "yield_back"} THEN e.result.kind = "ok" ELSE e.result

AtFront(e) == e.call \in {"yield_front", "yield_literal_front"}

\* what the call recorded in e removed from the input
Removed(e) ==
    IF AtFront(e) THEN SubSeq(e.before, 1, Len(e.before) - Len(e.after))
    ELSE SubSeq(e.before, Len(e.after) + 1, Len(e.before))

\* C24: yield_front, yield_back, yield_literal_front and yield_literal_back
\* change the caller's input only on success: on success the input becomes the
\* unparsed remainder, the parsed prefix or suffix removed, and on failure it
\* is left as it was, after any sequence of such calls.
C24_InputChangesOnlyOnSuccess ==
    pc = "yield" =>
        /\ \A k \in 1..Len(out) :
               LET e == out[k]
               IN  /\ ~Succeeded(e) => e.after = e.before
                   /\ Succeeded(e) =>
                          /\ Len(e.after) <= Len(e.before)
                          /\ e.before = IF AtFront(e) THEN Removed(e) \o e.after
                                        ELSE e.after \o Removed(e)
                          /\ e.call \in {"yield_front", "yield_back"} =>
                                 /\ Removed(e) /= <<>>
                                 /\ IF AtFront(e)
                                    THEN from_str_front(e.arg, Removed(e))
                                             = ParseOk(e.result.val, <<>>)
                                    ELSE from_str_back(e.arg, Removed(e))
                                             = ParseOk(e.result.val, <<>>)
                          /\ e.call \in {"yield_literal_front", "yield_literal_back"} =>
                                 Removed(e) = e.arg
                   /\ k < Len(out) => out[k + 1].before = e.after
        /\ Len(out) > 0 => input = out[Len(out)].after

\* a yield_front that failed and left the input alone, after a yield_back
\* that took an integer off its end
C24_Witness ==
    /\ pc = "yield"
    /\ Len(out) = 2
    /\ out[1].call = "yield_back" /\ out[1].arg = I8 /\ Succeeded(out[1])
    /\ out[1].after /= <<>> /\ out[1].after /= out[1].before
    /\ out[2].call = "yield_front" /\ ~Succeeded(out[2])
    /\ input = out[1].after


----------------------------------------------------------------------------
(* Claims about escape::charset followed by split::non_escaped_sanitize *)

\* C29: escaping then splitting is the identity: for every input s, escape esc
\* and sorted delimiter set D with esc not in D, the sanitizing splitter applied
\* to escape::charset(s, esc, D) with the same esc and D yields exactly one
\* segment, and that segment equals s.
C29_EscapeThenSplitIsIdentity ==
    (CharsetReturned /\ ~Contains(charset, esc)) =>
        LET segs == SanitizeCollect(ret.val.s, esc, charset)
        IN  /\ Len(segs) = 1
            /\ segs[1] \in {Some(Borrowed(input)), Some(Owned(input))}

\* charset returned for an input that holds the escape and a delimiter, and
\* the splitter gives the input back from the escaped text
C29_Witness ==
    /\ CharsetReturned
    /\ ~Contains(charset, esc)
    /\ charset /= <<>>
    /\ Contains(input, esc)
    /\ \E k \in 1..Len(input) : Contains(charset, input[k])
    /\ \E k \in 1..Len(input) : input[k] /= esc /\ ~Contains(charset, input[k])
    /\ ret.val.s /= input
    /\ SanitizeCollect(ret.val.s, esc, charset) = <<Some(Owned(input))>>

====
